---- MODULE Spec2Model ----
(***************************************************************************)
(* Buntkaki Export Master (src/app.py): the logistics and pricing          *)
(* computations of the Streamlit script -- input validation, shipment      *)
(* specs, FCL recommendation, mode costs, the Incoterms quote and the      *)
(* back-solvers of tab 3.                                                  *)
(*                                                                         *)
(* Number representation (Python floats become exact fixed point):         *)
(*   weights            tenths of a kg        (6.0 kg   -> 60)             *)
(*   total_cbm          thousandths of a CBM  (round(x, 3))                *)
(*   billing_cbm        hundredths of a CBM   (round(x, 2))                *)
(*   vol_factor         tenths                (0.7      -> 7)              *)
(*   kcci_index         hundredths            (1.05     -> 105)            *)
(*   money              [won, milli] : won + milli/1000 KRW, 0<=milli<1000 *)
(* Python's round() works on the binary double: where the exact decimal    *)
(* value is a tie, the result depends on the sign of the representation    *)
(* error of the operand, which fixed point cannot see.  That sign is the   *)
(* input fp (-1 below, 0 exact: round-half-even, +1 above) of the          *)
(* operators that round.                                                   *)
(***************************************************************************)
EXTENDS Integers, Sequences, FiniteSets, TLC

VARIABLES pc,            \* position in the script / harness
          product_info,  \* prod = PRODUCTS[product_sel]
          qty,           \* st.sidebar.number_input "order quantity"
          packing_type,  \* st.sidebar.radio "packing"
          kcci_index,    \* st.sidebar.slider "KCCI", hundredths
          incoterms,     \* st.sidebar.selectbox "incoterms"
          target_market, \* st.sidebar.selectbox "destination"
          valid,         \* (is_valid, error_msg)
          logistics,     \* calculate_logistics_specs(...)
          fcl_rec,       \* calculate_fcl_recommendation(...)
          shipping,      \* calculate_all_shipping_costs(...)
          quote,         \* tab 2: items, seller_pay, buyer_pay
          specs_A,       \* tab 4: module packing specs
          specs_B,       \* tab 4: assembled packing specs
          solver_in,     \* tab 3 inputs
          solver_out     \* tab 3 results

vars == <<pc, product_info, qty, packing_type, kcci_index, incoterms,
          target_market, valid, logistics, fcl_rec, shipping, quote,
          specs_A, specs_B, solver_in, solver_out>>

None == "None"

(***************************************************************************)
(* Bounds of the argument sets of the function-level specifications.       *)
(***************************************************************************)
QtyMargin == 6
WeightMargin == 2

(***************************************************************************)
(* 1. Data base and constants                                              *)
(***************************************************************************)
PRODUCTS ==
    [name \in {"9in1 module shelf", "Berlin table"} |->
        IF name = "9in1 module shelf"
        THEN [name |-> name, cost_mfg |-> 60000, weight_kg |-> 60,
              dims_cm |-> <<30, 30, 30>>, cbm_original |-> 27]
        ELSE [name |-> name, cost_mfg |-> 135000, weight_kg |-> 190,
              dims_cm |-> <<50, 50, 50>>, cbm_original |-> 125]]

\* The two radio options; tab 4 passes "A안: 모듈" / "B안: 완제품", which the
\* substring test of calculate_logistics_specs classifies the same way.
PACKING_TYPES == {"B: assembled (volume 100%)", "A: module (volume 70%)"}

MaxQty == 10000

DESTINATIONS ==
    [d \in {"Hong Kong", "Japan", "USA (West Coast)", "Singapore"} |->
        CASE d = "Hong Kong" ->
                [duty_rate |-> 0, local_handling |-> 200000,
                 inland_delivery |-> 300000, currency |-> "HKD"]
          [] d = "Japan" ->
                [duty_rate |-> 0, local_handling |-> 250000,
                 inland_delivery |-> 350000, currency |-> "JPY"]
          [] d = "USA (West Coast)" ->
                [duty_rate |-> 0, local_handling |-> 400000,
                 inland_delivery |-> 500000, currency |-> "USD"]
          [] d = "Singapore" ->
                [duty_rate |-> 0, local_handling |-> 180000,
                 inland_delivery |-> 250000, currency |-> "SGD"]]

\* max_cbm in CBM, max_kg in kg
CONTAINER_SPECS ==
    [c \in {"20ft", "40ft", "40ft_HC"} |->
        CASE c = "20ft" -> [max_cbm |-> 28, max_kg |-> 21000]
          [] c = "40ft" -> [max_cbm |-> 58, max_kg |-> 26000]
          [] c = "40ft_HC" -> [max_cbm |-> 68, max_kg |-> 26000]]

\* The key order of the CONTAINER_SPECS dict: ascending container size.
CONTAINER_ORDER == <<"20ft", "40ft", "40ft_HC">>

FCL_THRESHOLD_CBM == 15

(***************************************************************************)
(* Arithmetic helpers                                                      *)
(***************************************************************************)
Max(a, b) == IF a >= b THEN a ELSE b

\* round(n / d) to an integer, n >= 0, d > 0: Python's round() of a double
\* whose exact decimal value is n/d and whose representation error has sign fp.
RoundDiv(n, d, fp) ==
    LET q == n \div d
        r == n % d
    IN  IF 2 * r < d THEN q
        ELSE IF 2 * r > d THEN q + 1
        ELSE IF fp > 0 THEN q + 1
        ELSE IF fp < 0 THEN q
        ELSE IF q % 2 = 0 THEN q ELSE q + 1

\* math.ceil(n / d) for n >= 0, d > 0
CeilDiv(n, d) == (n + d - 1) \div d

\* Money: won + milli/1000 KRW
Won(w) == [won |-> w, milli |-> 0]

MNorm(w, m) == [won |-> w + (m \div 1000), milli |-> m % 1000]

MAdd(a, b) == MNorm(a.won + b.won, a.milli + b.milli)

MTimes(a, n) == MNorm(a.won * n, a.milli * n)

MLe(a, b) == a.won < b.won \/ (a.won = b.won /\ a.milli <= b.milli)

MLt(a, b) == a.won < b.won \/ (a.won = b.won /\ a.milli < b.milli)

\* rate (whole won per unit) times the fixed-point amount v/d, d in {10, 100}
MulFix(rate, v, d) ==
    LET r == rate * (v % d)
    IN  MNorm(rate * (v \div d) + (r \div d), ((r % d) * 1000) \div d)

\* a * num / den for a per-mille or per-cent rate, to the milli-won
MRate(a, num, den) ==
    LET w == a.won * num
        m == (a.milli * num) \div den
    IN  MNorm(w \div den, ((w % den) * 1000) \div den + m)

\* x >= whole + rem/den, for 0 <= rem, den > 0, without forming x * den
\* when it is large.
GeFrac(x, whole, rem, den) ==
    IF x - whole > rem \div den THEN TRUE
    ELSE IF x - whole < 0 THEN FALSE
    ELSE (x - whole) * den >= rem

\* round(d * vol_factor ** (1/3), 1) in tenths of a cm, for d in whole cm
\* and vol_factor in tenths: the a with (a - 1/2) <= 10*d*c < (a + 1/2),
\* c^3 = vol_factor/10, i.e. (2a-1)^3 <= 800 * vf * d^3 < (2a+1)^3.
CubeRootScale(d, vf) ==
    CHOOSE a \in 0..(10 * d) :
        /\ (2*a - 1) * (2*a - 1) * (2*a - 1) <= 800 * vf * d * d * d
        /\ 800 * vf * d * d * d < (2*a + 1) * (2*a + 1) * (2*a + 1)

\* The adjusted dimension of every catalog dimension under module packing
\* (dim_factor = 0.7 ** (1/3)), tabulated once.
ModuleDims ==
    [d \in {PRODUCTS[n].dims_cm[i] : n \in DOMAIN PRODUCTS, i \in 1..3} |->
        CubeRootScale(d, 7)]

(***************************************************************************)
(* 2. Utility functions                                                    *)
(***************************************************************************)
validate_inputs_no_ceiling(q, p) ==
    IF q <= 0 THEN <<FALSE, "quantity must be at least 1">>
    ELSE IF p.weight_kg <= 0 THEN <<FALSE, "product weight is not valid">>
    ELSE <<TRUE, "OK">>

validate_inputs(q, p) ==
    IF q <= 0 THEN <<FALSE, "quantity must be at least 1">>
    ELSE IF q > MaxQty THEN <<FALSE, "quantity too large (max 10,000)">>
    ELSE IF p.weight_kg <= 0 THEN <<FALSE, "product weight is not valid">>
    ELSE <<TRUE, "OK">>

is_module_of(pt) == pt = "A: module (volume 70%)"

vol_factor_ignored(pt) == 10

vol_factor_of(pt) == IF is_module_of(pt) THEN 7 ELSE 10

\* The sign of the representation error of the double total_cbm: 0.125 * q
\* is exact in binary (a tie is then rounded half-even); any other product
\* may fall on either side of a decimal tie.
FpErrCbm(p, pt) ==
    IF ~is_module_of(pt) /\ p.cbm_original % 125 = 0 THEN {0}
    ELSE {-1, 0, 1}

FpErr(p, pt) == FpErrCbm(p, pt) \X {-1, 0, 1}

air_cw_volumetric_only(total_gw, vol_unit, q, fp) ==
    (vol_unit \div 6000) * q + RoundDiv((vol_unit % 6000) * q, 6000, fp)

\* round(max(total_gw, vol_weight_total), 1) in tenths of a kg.  vol_unit is
\* the product of the three adjusted dimensions (cm^3) in tenths, so that
\* the volumetric weight of q units is vol_unit * q / 6000 tenths of a kg:
\* whole + rem/6000.
air_cw_of(total_gw, vol_unit, q, fp) ==
    LET vol_whole == (vol_unit \div 6000) * q
        vol_rem == (vol_unit % 6000) * q
    IN  IF GeFrac(total_gw, vol_whole, vol_rem, 6000)
        THEN total_gw
        ELSE vol_whole + RoundDiv(vol_rem, 6000, fp)

\* total_cbm_raw is in 1/10000 CBM (cbm_original in 1/1000 times vol_factor
\* in tenths).  The adjusted dimensions are d * vol_factor^(1/3) each, so
\* their product is L*W*H*vol_factor.
calculate_logistics_specs(q, p, pt, fp) ==
    LET is_module == is_module_of(pt)
        vf == vol_factor_of(pt)
        total_cbm_raw == p.cbm_original * vf * q
        total_gw == p.weight_kg * q
        billing_raw == Max(10000, total_cbm_raw)
        dims == p.dims_cm
        adjusted_dims == [i \in 1..3 |->
                            IF is_module THEN ModuleDims[dims[i]]
                            ELSE 10 * dims[i]]
        vol_unit == dims[1] * dims[2] * dims[3] * vf
    IN  [total_cbm |-> RoundDiv(total_cbm_raw, 10, fp[1]),
         billing_cbm |-> RoundDiv(billing_raw, 100, fp[1]),
         total_gw |-> total_gw,
         air_cw |-> air_cw_of(total_gw, vol_unit, q, fp[2]),
         is_module |-> is_module,
         vol_factor |-> vf,
         adjusted_dims |-> adjusted_dims]

\* What calculate_logistics_specs(q, p, pt) can return, over the
\* representation errors of its doubles.
LogisticsOutcomes(q, p, pt) ==
    {calculate_logistics_specs(q, p, pt, fp) : fp \in FpErr(p, pt)}

calculate_fcl_recommendation_by_volume(total_cbm, total_gw) ==
    IF total_cbm < 15 * 1000
    THEN [recommend_fcl |-> FALSE, container_type |-> None,
          container_qty |-> 0, reason |-> "below the FCL threshold"]
    ELSE IF total_cbm <= 28 * 1000
    THEN [recommend_fcl |-> TRUE, container_type |-> "20ft",
          container_qty |-> 1, reason |-> "fits one 20ft"]
    ELSE IF total_cbm <= 58 * 1000
    THEN [recommend_fcl |-> TRUE, container_type |-> "40ft",
          container_qty |-> 1, reason |-> "fits one 40ft"]
    ELSE [recommend_fcl |-> TRUE, container_type |-> "40ft_HC",
          container_qty |-> CeilDiv(total_cbm, 68 * 1000),
          reason |-> "several 40ft HC needed"]

\* total_cbm in 1/1000 CBM, total_gw in tenths of a kg.  The reason string
\* is kept without its formatted numbers.
calculate_fcl_recommendation(total_cbm, total_gw) ==
    IF total_cbm < FCL_THRESHOLD_CBM * 1000
    THEN [recommend_fcl |-> FALSE, container_type |-> None,
          container_qty |-> 0, reason |-> "below the FCL threshold"]
    ELSE IF total_cbm <= 28 * 1000 /\ total_gw <= 21000 * 10
    THEN [recommend_fcl |-> TRUE, container_type |-> "20ft",
          container_qty |-> 1, reason |-> "fits one 20ft"]
    ELSE IF total_cbm <= 58 * 1000 /\ total_gw <= 26000 * 10
    THEN [recommend_fcl |-> TRUE, container_type |-> "40ft",
          container_qty |-> 1, reason |-> "fits one 40ft"]
    ELSE IF total_cbm <= 68 * 1000 /\ total_gw <= 26000 * 10
    THEN [recommend_fcl |-> TRUE, container_type |-> "40ft_HC",
          container_qty |-> 1, reason |-> "fits one 40ft High Cube"]
    ELSE [recommend_fcl |-> TRUE, container_type |-> "40ft_HC",
          container_qty |-> CeilDiv(total_cbm, 68 * 1000),
          reason |-> "several 40ft HC needed"]

\* Inland trucking by gross weight (tenths of a kg)
cost_truck_of(total_gw) ==
    IF total_gw < 1000 * 10 THEN 350000
    ELSE IF total_gw < 2500 * 10 THEN 450000
    ELSE IF total_gw < 5000 * 10 THEN 600000
    ELSE 700000

\* fcl_costs: the dict as the sequence of its (key, value) pairs in
\* insertion order.  500000 * kcci_index is 5000 * kcci in hundredths.
fcl_costs_of(kcci, rec) ==
    LET rate_ocean_20ft == 5000 * kcci
        rate_ocean_40ft == 9000 * kcci
        rate_ocean_40hc == 9500 * kcci
        cost_local_fcl_20 == 280000
        cost_local_fcl_40 == 350000
        cost_local_fcl_40hc == 380000
        cost_truck_fcl == 700000
        ctype == rec.container_type
        cqty == rec.container_qty
    IN  IF rec.recommend_fcl
        THEN CASE ctype = "20ft" ->
                    << <<"20ft", Won((rate_ocean_20ft + cost_local_fcl_20
                                      + cost_truck_fcl) * cqty)>> >>
               [] ctype = "40ft" ->
                    << <<"40ft", Won((rate_ocean_40ft + cost_local_fcl_40
                                      + cost_truck_fcl) * cqty)>> >>
               [] ctype = "40ft_HC" ->
                    << <<"40ft_HC", Won((rate_ocean_40hc + cost_local_fcl_40hc
                                         + cost_truck_fcl) * cqty)>> >>
               [] OTHER -> << >>
        ELSE << <<"20ft", Won(rate_ocean_20ft + cost_local_fcl_20
                              + cost_truck_fcl)>>,
                <<"40ft", Won(rate_ocean_40ft + cost_local_fcl_40
                              + cost_truck_fcl)>> >>

best_ocean_last_minimum(all_options) ==
    LET i == CHOOSE i \in 1..Len(all_options) :
                /\ \A j \in 1..Len(all_options) :
                        MLe(all_options[i][2], all_options[j][2])
                /\ \A j \in (i + 1)..Len(all_options) :
                        MLt(all_options[i][2], all_options[j][2])
    IN  all_options[i]

\* min(all_options.items(), key=lambda x: x[1]): the first pair, in dict
\* order, whose value no other pair undercuts.
best_ocean_of(all_options) ==
    LET i == CHOOSE i \in 1..Len(all_options) :
                /\ \A j \in 1..Len(all_options) :
                        MLe(all_options[i][2], all_options[j][2])
                /\ \A j \in 1..(i - 1) :
                        MLt(all_options[i][2], all_options[j][2])
    IN  all_options[i]

calculate_all_shipping_costs(logistics_specs, kcci, fcl_recommendation) ==
    LET billing_cbm == logistics_specs.billing_cbm
        total_gw == logistics_specs.total_gw
        air_cw == logistics_specs.air_cw
        rate_ocean_lcl == 150 * kcci
        rate_air_kg == 35 * kcci
        cost_cfs_lcl == MulFix(25000, billing_cbm, 100)
        cost_doc == 50000
        cost_truck == cost_truck_of(total_gw)
        ocean_freight_lcl == MulFix(rate_ocean_lcl, billing_cbm, 100)
        total_lcl == MAdd(MAdd(MAdd(ocean_freight_lcl, cost_cfs_lcl),
                               Won(cost_truck)), Won(cost_doc))
        fcl_costs == fcl_costs_of(kcci, fcl_recommendation)
        air_freight == MulFix(rate_air_kg, air_cw, 10)
        total_air == MAdd(MAdd(MAdd(air_freight, Won(cost_truck)),
                               Won(cost_doc)), Won(100000))
        all_options == << <<"LCL", total_lcl>> >>
                       \o [k \in 1..Len(fcl_costs) |->
                              <<"FCL_" \o fcl_costs[k][1], fcl_costs[k][2]>>]
        best_ocean == best_ocean_of(all_options)
    IN  [lcl |-> [total |-> total_lcl, freight |-> ocean_freight_lcl,
                  cfs |-> cost_cfs_lcl, truck |-> cost_truck,
                  doc |-> cost_doc],
         fcl |-> fcl_costs,
         air |-> [total |-> total_air, freight |-> air_freight,
                  truck |-> cost_truck, doc |-> cost_doc],
         best_ocean |-> [mode |-> best_ocean[1], cost |-> best_ocean[2]],
         rates |-> [lcl_per_cbm |-> rate_ocean_lcl,
                    air_per_kg |-> rate_air_kg]]

\* The ten line items of the quote (tab 2), in the order of the items dict.
quote_items(prod, q, ship, dest_info) ==
    LET cost_mfg_total == prod.cost_mfg * q
        cost_packing_mat == 1500 * q
        cost_customs_kr == 50000
        best_ocean_cost == ship.best_ocean.cost
        cost_insurance == MRate(best_ocean_cost, 2, 1000)
        is_lcl_winner == ship.best_ocean.mode = "LCL"
        cost_truck == IF is_lcl_winner THEN Won(ship.lcl.truck)
                      ELSE Won(700000)
        cost_origin_local == IF is_lcl_winner THEN ship.lcl.cfs
                             ELSE Won(280000)
        cost_ocean_freight == IF is_lcl_winner THEN ship.lcl.freight
                              ELSE IF Len(ship.fcl) > 0 THEN ship.fcl[1][2]
                              ELSE Won(0)
        cost_local_dest == dest_info.local_handling
        cost_duty == MRate(MAdd(Won(cost_mfg_total), best_ocean_cost),
                           dest_info.duty_rate, 100)
        cost_inland_dest == dest_info.inland_delivery
    IN  << Won(cost_mfg_total),
           Won(cost_packing_mat),
           cost_truck,
           Won(cost_customs_kr + ship.lcl.doc),
           cost_origin_local,
           cost_ocean_freight,
           cost_insurance,
           Won(cost_local_dest),
           cost_duty,
           Won(cost_inland_dest) >>

TERMS == <<"EXW", "FOB", "CFR", "CIF", "DDP">>

rules_cfr_without_origin ==
    [t \in {"EXW", "FOB", "CFR", "CIF", "DDP"} |->
        CASE t = "EXW" -> {1, 2}
          [] t = "FOB" -> {1, 2, 3, 4, 5}
          [] t = "CFR" -> {1, 2, 3, 4, 6}
          [] t = "CIF" -> {1, 2, 3, 4, 5, 6, 7}
          [] t = "DDP" -> {1, 2, 3, 4, 5, 6, 7, 8, 9, 10}]

\* The line items the seller pays under each trade term.
rules ==
    [t \in {"EXW", "FOB", "CFR", "CIF", "DDP"} |->
        CASE t = "EXW" -> {1, 2}
          [] t = "FOB" -> {1, 2, 3, 4, 5}
          [] t = "CFR" -> {1, 2, 3, 4, 5, 6}
          [] t = "CIF" -> {1, 2, 3, 4, 5, 6, 7}
          [] t = "DDP" -> {1, 2, 3, 4, 5, 6, 7, 8, 9, 10}]

\* The sum of items[i] over the i <= n in sel, accumulated in item order.
RECURSIVE pay_sum(_, _, _)
pay_sum(items, sel, n) ==
    IF n = 0 THEN Won(0)
    ELSE MAdd(pay_sum(items, sel, n - 1),
              IF n \in sel THEN items[n] ELSE Won(0))

\* The loop over enumerate(items.items(), 1): seller_pay and buyer_pay
allocate(items, term) ==
    [seller_pay |-> pay_sum(items, rules[term], Len(items)),
     buyer_pay |-> pay_sum(items, (1..Len(items)) \ rules[term], Len(items))]

RECURSIVE GCD(_, _)
GCD(a, b) == IF b = 0 THEN a ELSE GCD(b, a % b)

IsPowerOfTwo(n) == n \in {1, 2, 4, 8, 16, 32, 64}

\* n / d is a binary fraction, which the double holds exactly (small n, d)
ExactInBinary(n, d) ==
    IsPowerOfTwo(d \div GCD(IF n < 0 THEN -n ELSE n, d))

TARGET_MARGIN_MIN == 10
TARGET_MARGIN_DEFAULT == 25
TARGET_MARGIN_MAX == 50

\* total_cost_unit = seller_pay / qty;
\* min_price_for_target = total_cost_unit / (1 - target_margin/100),
\* the fraction num/den (den carries the sign of 1 - target_margin/100).
\* A float division by 0.0 raises ZeroDivisionError.
min_price_for_target_of(seller_pay, q, target_margin) ==
    IF 100 - target_margin = 0
    THEN [kind |-> "ZeroDivisionError"]
    ELSE [kind |-> "price", num |-> seller_pay * 100,
          den |-> q * (100 - target_margin)]

\* fixed_costs = cost_customs_kr + shipping["lcl"]["doc"]
fixed_costs_of == 50000 + 50000

\* variable_cost_per_unit = (seller_pay - fixed_costs) / qty = var_num / q and
\* target_krw - variable_cost_per_unit = gap_num / q.  math.ceil of the double
\* quotient: where the exact quotient is an integer and the variable cost is
\* not a binary fraction, the rounding error of the operands decides whether
\* the double lies on the integer or just above it (fp > 0).
break_even_of(seller_pay, q, target_krw, fp) ==
    LET fixed_costs == fixed_costs_of
        var_num == seller_pay - fixed_costs
        gap_num == target_krw * q - var_num
    IN  IF gap_num > 0
        THEN LET exact == CeilDiv(fixed_costs * q, gap_num)
                 on_integer == (fixed_costs * q) % gap_num = 0
             IN  [kind |-> "bep_qty",
                  bep_qty |-> IF on_integer /\ ~ExactInBinary(var_num, q)
                                 /\ fp > 0
                              THEN exact + 1 ELSE exact]
        ELSE [kind |-> "NoBreakEven"]

(***************************************************************************)
(* 3. The script, step by step                                             *)
(***************************************************************************)
Idle ==
    /\ valid = None /\ logistics = None /\ fcl_rec = None /\ shipping = None
    /\ quote = None /\ specs_A = None /\ specs_B = None

NoSolver == solver_in = None /\ solver_out = None

NoSidebar == kcci_index = None /\ incoterms = None /\ target_market = None

\* is_valid, error_msg = validate_inputs(qty, prod); st.stop() on an error
Validate ==
    /\ pc = "input"
    /\ valid' = validate_inputs(qty, product_info)
    /\ pc' = IF valid'[1] THEN "validated" ELSE "stopped"
    /\ UNCHANGED <<product_info, qty, packing_type, kcci_index, incoterms,
                   target_market, logistics, fcl_rec, shipping, quote,
                   specs_A, specs_B, solver_in, solver_out>>

\* logistics = calculate_logistics_specs(qty, prod, packing_type)
Logistics ==
    /\ pc = "validated"
    /\ logistics' \in LogisticsOutcomes(qty, product_info, packing_type)
    /\ pc' = "specs"
    /\ UNCHANGED <<product_info, qty, packing_type, kcci_index, incoterms,
                   target_market, valid, fcl_rec, shipping, quote,
                   specs_A, specs_B, solver_in, solver_out>>

\* tab 4: specs_A / specs_B for the same product and quantity
Tab4(from) ==
    /\ pc = from
    /\ specs_A' \in LogisticsOutcomes(qty, product_info, "A: module (volume 70%)")
    /\ specs_B' \in LogisticsOutcomes(qty, product_info, "B: assembled (volume 100%)")
    /\ pc' = "compared"
    /\ UNCHANGED <<product_info, qty, packing_type, kcci_index, incoterms,
                   target_market, valid, logistics, fcl_rec, shipping, quote,
                   solver_in, solver_out>>

\* fcl_rec = calculate_fcl_recommendation(logistics["total_cbm"], logistics["total_gw"])
FclRec ==
    /\ pc = "specs"
    /\ fcl_rec' = calculate_fcl_recommendation(logistics.total_cbm,
                                                logistics.total_gw)
    /\ pc' = "fcl"
    /\ UNCHANGED <<product_info, qty, packing_type, kcci_index, incoterms,
                   target_market, valid, logistics, shipping, quote,
                   specs_A, specs_B, solver_in, solver_out>>

\* shipping = calculate_all_shipping_costs(logistics, kcci_index, fcl_rec)
Shipping ==
    /\ pc = "fcl"
    /\ shipping' = calculate_all_shipping_costs(logistics, kcci_index, fcl_rec)
    /\ pc' = "costs"
    /\ UNCHANGED <<product_info, qty, packing_type, kcci_index, incoterms,
                   target_market, valid, logistics, fcl_rec, quote,
                   specs_A, specs_B, solver_in, solver_out>>

\* The cost items and tab 2: items, seller_pay, buyer_pay
Quote ==
    /\ pc = "costs"
    /\ LET items == quote_items(product_info, qty, shipping,
                                DESTINATIONS[target_market])
           pay == allocate(items, incoterms)
       IN  quote' = [items |-> items, seller_pay |-> pay.seller_pay,
                     buyer_pay |-> pay.buyer_pay]
    /\ pc' = "quoted"
    /\ UNCHANGED <<product_info, qty, packing_type, kcci_index, incoterms,
                   target_market, valid, logistics, fcl_rec, shipping,
                   specs_A, specs_B, solver_in, solver_out>>

\* tab 3, lines 505-513: unit cost and the minimum price for the target
\* margin; an exception ends the script run
Tab3Price ==
    /\ pc = "tab3"
    /\ LET mp == min_price_for_target_of(solver_in.seller_pay, solver_in.qty,
                                         solver_in.target_margin)
       IN  /\ solver_out' = [min_price_for_target |-> mp, bep |-> None]
           /\ pc' = IF mp.kind = "ZeroDivisionError" THEN "crashed"
                    ELSE "priced"
    /\ UNCHANGED <<product_info, qty, packing_type, kcci_index, incoterms,
                   target_market, valid, logistics, fcl_rec, shipping, quote,
                   specs_A, specs_B, solver_in>>

\* tab 3, lines 546-554: break-even analysis
Tab3BreakEven ==
    /\ pc = "priced"
    /\ \E fp \in {-1, 0, 1} :
          solver_out' = [solver_out EXCEPT !.bep =
                            break_even_of(solver_in.seller_pay, solver_in.qty,
                                          solver_in.target_krw, fp)]
    /\ pc' = "solved"
    /\ UNCHANGED <<product_info, qty, packing_type, kcci_index, incoterms,
                   target_market, valid, logistics, fcl_rec, shipping, quote,
                   specs_A, specs_B, solver_in>>

(***************************************************************************)
(* Specification of validate_inputs over its argument space                *)
(***************************************************************************)
QtyArgs == (-QtyMargin .. QtyMargin) \cup ((MaxQty - QtyMargin) .. (MaxQty + QtyMargin))

WeightArgs == -WeightMargin .. WeightMargin

ProductArgs ==
    {PRODUCTS[n] : n \in DOMAIN PRODUCTS}
    \cup {[PRODUCTS[n] EXCEPT !.weight_kg = w] :
              n \in DOMAIN PRODUCTS, w \in WeightArgs}

InitValidate ==
    /\ pc = "input"
    /\ product_info \in ProductArgs
    /\ qty \in QtyArgs
    /\ packing_type \in PACKING_TYPES
    /\ NoSidebar /\ Idle /\ NoSolver

SpecValidate == InitValidate /\ [][Validate]_vars

(***************************************************************************)
(* Specification of calculate_logistics_specs over the catalog and every   *)
(* validated quantity                                                      *)
(***************************************************************************)
InitLogistics ==
    /\ pc = "validated"
    /\ product_info \in {PRODUCTS[n] : n \in DOMAIN PRODUCTS}
    /\ qty \in 1..MaxQty
    /\ packing_type \in PACKING_TYPES
    /\ valid = validate_inputs(qty, product_info)
    /\ logistics = None /\ fcl_rec = None /\ shipping = None /\ quote = None
    /\ specs_A = None /\ specs_B = None
    /\ NoSidebar /\ NoSolver

NextLogistics == Logistics \/ Tab4("specs")

SpecLogistics == InitLogistics /\ [][NextLogistics]_vars

(***************************************************************************)
(* Specification of calculate_fcl_recommendation over volumes and weights  *)
(* around its thresholds                                                   *)
(***************************************************************************)
CbmMargin == 2
GwMargin == 2
MaxContainers == 3

\* 1/1000 CBM: around 0, the threshold, each capacity and its multiples,
\* the two scenarios 13.5 and 54 CBM, and 27 CBM (where LCL costs what one
\* 20ft does at index 1.00)
CbmArgs ==
    {c \in {t * 1000 + d : t \in {0, FCL_THRESHOLD_CBM, 28, 58}
                                  \cup {68 * k : k \in 1..MaxContainers},
                           d \in -CbmMargin .. CbmMargin} : c >= 0}
    \cup {13500, 27000, 54000}

\* tenths of a kg: around 0 and the two weight limits, and 3000, 12000 and
\* 30000 kg
GwArgs ==
    {g \in {t * 10 + d : t \in {0, 21000, 26000},
                          d \in -GwMargin .. GwMargin} : g >= 0}
    \cup {30000, 120000, 300000}

SpecArgs ==
    {[total_cbm |-> c, billing_cbm |-> Max(100, RoundDiv(c, 10, 0)),
      total_gw |-> g, air_cw |-> g, is_module |-> FALSE, vol_factor |-> 10,
      adjusted_dims |-> <<300, 300, 300>>] : c \in CbmArgs, g \in GwArgs}

InitFcl ==
    /\ pc = "specs"
    /\ logistics \in SpecArgs
    /\ product_info = None /\ qty = None /\ packing_type = None
    /\ valid = None /\ fcl_rec = None /\ shipping = None /\ quote = None
    /\ specs_A = None /\ specs_B = None
    /\ NoSidebar /\ NoSolver

SpecFcl == InitFcl /\ [][FclRec]_vars

(***************************************************************************)
(* Specification of calculate_all_shipping_costs over shipment specs,      *)
(* market multipliers and FCL recommendations                              *)
(***************************************************************************)
KCCI_MIN == 80
KCCI_DEFAULT == 105
KCCI_MAX == 150

KcciArgs == {KCCI_MIN, 100, KCCI_DEFAULT, KCCI_MAX}

RecArgs ==
    {[recommend_fcl |-> FALSE, container_type |-> None, container_qty |-> 0,
      reason |-> "below the FCL threshold"]}
    \cup {[recommend_fcl |-> TRUE, container_type |-> c, container_qty |-> n,
           reason |-> "argument"] :
              c \in DOMAIN CONTAINER_SPECS, n \in 1..MaxContainers}

InitCosts ==
    /\ pc = "fcl"
    /\ logistics \in SpecArgs
    /\ kcci_index \in KcciArgs
    /\ fcl_rec \in RecArgs
    /\ product_info = None /\ qty = None /\ packing_type = None
    /\ incoterms = None /\ target_market = None
    /\ valid = None /\ shipping = None /\ quote = None
    /\ specs_A = None /\ specs_B = None
    /\ NoSolver

SpecCosts == InitCosts /\ [][Shipping]_vars

(***************************************************************************)
(* The script from the sidebar inputs to tab 4                             *)
(***************************************************************************)
SmallQty == 40
QTY_STEP == 50

\* Quantities the number_input yields: the small ones, and the steps of 50
QtySamples ==
    (1..SmallQty) \cup {QTY_STEP * k : k \in 1..(MaxQty \div QTY_STEP)}

Init ==
    /\ pc = "input"
    /\ product_info \in {PRODUCTS[n] : n \in DOMAIN PRODUCTS}
    /\ qty \in QtySamples
    /\ packing_type \in PACKING_TYPES
    /\ kcci_index \in {KCCI_MIN, KCCI_DEFAULT, KCCI_MAX}
    /\ incoterms \in {TERMS[i] : i \in 1..Len(TERMS)}
    /\ target_market \in DOMAIN DESTINATIONS
    /\ Idle /\ NoSolver

Next ==
    \/ Validate
    \/ Logistics
    \/ FclRec
    \/ Shipping
    \/ Quote
    \/ Tab4("quoted")

Spec == Init /\ [][Next]_vars

(***************************************************************************)
(* Specification of the two back-solvers of tab 3 over unit costs, target  *)
(* prices and target margins                                               *)
(***************************************************************************)
MaxSolverQty == 3

\* seller_pay for q units: the fixed costs plus a variable part of 30 won
\* per unit or of 0, 50 or 100 won in all, and the EXW quote of q catalog
\* products ((cost_mfg + 1500) * q)
SellerPayArgs(q) ==
    {fixed_costs_of + n : n \in {0, 50, 100, 30 * q}}
    \cup {(PRODUCTS[n].cost_mfg + 1500) * q : n \in DOMAIN PRODUCTS}

\* target_krw = target_usd * usd_rate: unit prices of 20, 30, 50 and 85 won,
\* and 20 USD at 1410 KRW/USD
TargetKrwArgs == {20, 30, 50, 85, 20 * 1410}

\* per cent: the slider's range, and rates of 99% and more
TargetMarginArgs ==
    {TARGET_MARGIN_MIN, TARGET_MARGIN_DEFAULT, TARGET_MARGIN_MAX}
    \cup {99, 100, 101, 150}

SolverArgs ==
    {[seller_pay |-> sp, qty |-> q, target_krw |-> t, target_margin |-> m] :
        <<q, sp>> \in UNION {{<<q, sp>> : sp \in SellerPayArgs(q)} :
                                q \in 1..MaxSolverQty},
        t \in TargetKrwArgs, m \in TargetMarginArgs}

InitSolver ==
    /\ pc = "tab3"
    /\ solver_in \in SolverArgs
    /\ solver_out = None
    /\ product_info = None /\ qty = None /\ packing_type = None
    /\ NoSidebar /\ Idle

NextSolver == Tab3Price \/ Tab3BreakEven

SpecSolver == InitSolver /\ [][NextSolver]_vars

(***************************************************************************)
(* Properties                                                              *)
(***************************************************************************)

\* C1 (SpecValidate): validate_inputs accepts exactly when 1 <= qty <= 10000
\* and weight_kg > 0; otherwise the reason is that of the first failing rule
\* in the order: qty <= 0, qty > 10000, weight_kg <= 0.  The arguments are
\* left as they were (the action changes valid and pc only).
C1_ValidateContract ==
    pc \in {"validated", "stopped"} =>
        /\ valid[1] <=> (1 <= qty /\ qty <= 10000 /\ product_info.weight_kg > 0)
        /\ (pc = "validated") <=> valid[1]
        /\ valid[1] => valid[2] = "OK"
        /\ qty <= 0 => valid[2] = "quantity must be at least 1"
        /\ qty > 10000 => valid[2] = "quantity too large (max 10,000)"
        /\ (1 <= qty /\ qty <= 10000 /\ product_info.weight_kg <= 0)
              => valid[2] = "product weight is not valid"

\* C1 witness: a quantity above the ceiling, with a bad weight as well, was
\* rejected as too large.
C1_Witness ==
    /\ pc = "stopped"
    /\ qty = 10001
    /\ product_info.weight_kg <= 0
    /\ valid = <<FALSE, "quantity too large (max 10,000)">>

\* C2 (SpecLogistics), the claim as stated: the returned billing_cbm is at
\* least 1.0, and equals the returned total_cbm whenever that is at least 1.0.
C2_BillingFloorAndEquality ==
    pc = "specs" =>
        /\ logistics.billing_cbm >= 100
        /\ logistics.total_cbm >= 1000
              => logistics.billing_cbm * 10 = logistics.total_cbm

\* C3 (SpecFcl): FCL is recommended exactly from 15 CBM; below, no container
\* type and count 0.  When recommended: the smallest of 20ft, 40ft, 40ft_HC
\* whose volume and weight limits both hold, count 1; if none, 40ft_HC with
\* count ceil(total_cbm / 68).
C3_FclRecommendation ==
    pc = "fcl" =>
        LET cbm == logistics.total_cbm
            gw == logistics.total_gw
            fitting == {i \in 1..Len(CONTAINER_ORDER) :
                          /\ cbm <= CONTAINER_SPECS[CONTAINER_ORDER[i]].max_cbm * 1000
                          /\ gw <= CONTAINER_SPECS[CONTAINER_ORDER[i]].max_kg * 10}
        IN  /\ fcl_rec.recommend_fcl <=> cbm >= 15000
            /\ ~fcl_rec.recommend_fcl =>
                  fcl_rec.container_type = None /\ fcl_rec.container_qty = 0
            /\ (fcl_rec.recommend_fcl /\ fitting # {}) =>
                  /\ fcl_rec.container_qty = 1
                  /\ \E i \in fitting :
                        /\ fcl_rec.container_type = CONTAINER_ORDER[i]
                        /\ \A j \in fitting : i <= j
            /\ (fcl_rec.recommend_fcl /\ fitting = {}) =>
                  /\ fcl_rec.container_type = "40ft_HC"
                  /\ (fcl_rec.container_qty - 1) * 68000 < cbm
                  /\ cbm <= fcl_rec.container_qty * 68000

\* C3 witness: 54 CBM at 12,000 kg was given one 40ft.
C3_Witness ==
    /\ pc = "fcl"
    /\ logistics.total_cbm = 54000 /\ logistics.total_gw = 120000
    /\ fcl_rec.recommend_fcl
    /\ fcl_rec.container_type = "40ft" /\ fcl_rec.container_qty = 1

\* C4 (Spec), the claim as stated: every container type whose CBM and weight
\* limits the shipment fits has an entry in the returned fcl map.
C4_EveryEligiblePriced ==
    pc \in {"costs", "quoted", "compared"} =>
        \A c \in DOMAIN CONTAINER_SPECS :
            (/\ logistics.total_cbm <= CONTAINER_SPECS[c].max_cbm * 1000
             /\ logistics.total_gw <= CONTAINER_SPECS[c].max_kg * 10)
            => \E k \in 1..Len(shipping.fcl) : shipping.fcl[k][1] = c

ModeRank(mode) ==
    CASE mode = "LCL" -> 1
      [] mode = "FCL_20ft" -> 2
      [] mode = "FCL_40ft" -> 3
      [] mode = "FCL_40ft_HC" -> 4
      [] OTHER -> 5

\* The (mode, total) pairs best_ocean is chosen from: LCL and the fcl map.
OceanOptions ==
    {<<"LCL", shipping.lcl.total>>}
    \cup {<<"FCL_" \o shipping.fcl[k][1], shipping.fcl[k][2]>> :
              k \in 1..Len(shipping.fcl)}

\* C5 (SpecCosts): best_ocean is one of LCL and the fcl entries, its cost is
\* <= the LCL total and <= every fcl entry, and among the entries of that
\* cost it is the first in the order LCL, FCL_20ft, FCL_40ft, FCL_40ft_HC.
C5_BestOceanMinimum ==
    pc = "costs" =>
        /\ <<shipping.best_ocean.mode, shipping.best_ocean.cost>> \in OceanOptions
        /\ MLe(shipping.best_ocean.cost, shipping.lcl.total)
        /\ \A k \in 1..Len(shipping.fcl) :
              MLe(shipping.best_ocean.cost, shipping.fcl[k][2])
        /\ \A o \in OceanOptions :
              o[2] = shipping.best_ocean.cost
                  => ModeRank(shipping.best_ocean.mode) <= ModeRank(o[1])

\* C5 witness: LCL and the 20ft container cost the same, less than the 40ft,
\* and LCL was chosen.
C5_Witness ==
    /\ pc = "costs"
    /\ Len(shipping.fcl) = 2
    /\ shipping.fcl[1][1] = "20ft"
    /\ shipping.fcl[1][2] = shipping.lcl.total
    /\ shipping.best_ocean.mode = "LCL"

\* C6 (Spec): for the line items of one run, the seller-paid total does not
\* decrease along EXW, FOB, CFR, CIF, DDP; the run's seller_pay is the one of
\* its trade term, and seller_pay + buyer_pay is the total of all ten items.
C6_TradeTermMonotone ==
    pc \in {"quoted", "compared"} =>
        /\ \A i \in 1..(Len(TERMS) - 1) :
              MLe(pay_sum(quote.items, rules[TERMS[i]], 10),
                  pay_sum(quote.items, rules[TERMS[i + 1]], 10))
        /\ quote.seller_pay = pay_sum(quote.items, rules[incoterms], 10)
        /\ MAdd(quote.seller_pay, quote.buyer_pay)
              = pay_sum(quote.items, 1..10, 10)

\* C6 witness: a CIF quote of an FCL shipment whose seller total exceeds the
\* CFR total of the same items by the insurance.
C6_Witness ==
    /\ pc = "quoted"
    /\ incoterms = "CIF"
    /\ shipping.best_ocean.mode # "LCL"
    /\ MLt(pay_sum(quote.items, rules["CFR"], 10), quote.seller_pay)

\* C7 (SpecSolver), the claim as stated: a break-even quantity is produced
\* only when the unit price exceeds the variable cost per unit, and it is
\* then the least integer b with b * (price - variable cost) >= fixed costs;
\* otherwise NoBreakEven.  Price - variable cost is gap / qty.
C7_BreakEvenLeast ==
    pc = "solved" =>
        LET fixed == 100000
            gap == solver_in.target_krw * solver_in.qty
                   - (solver_in.seller_pay - fixed)
            b == solver_out.bep
        IN  IF gap > 0
            THEN /\ b.kind = "bep_qty"
                 /\ b.bep_qty >= 0
                 /\ b.bep_qty * gap >= fixed * solver_in.qty
                 /\ (b.bep_qty - 1) * gap < fixed * solver_in.qty
            ELSE b.kind = "NoBreakEven"

C9_ModularReduces ==
    pc = "compared" =>
        /\ specs_A.is_module /\ ~specs_B.is_module
        /\ specs_A.total_cbm < specs_B.total_cbm
        /\ specs_A.air_cw <= specs_B.air_cw
        /\ 10 * specs_A.air_cw >= 7 * specs_B.air_cw

\* C9 witness: a product whose air chargeable weight module packing reduces,
\* by less than the volume factor.
C9_Witness ==
    /\ pc = "compared"
    /\ qty = 2000
    /\ specs_A.air_cw < specs_B.air_cw
    /\ 10 * specs_A.air_cw > 7 * specs_B.air_cw

\* C10 (SpecLogistics): the returned air_cw is never less than the returned
\* total_gw, and is the greater of the gross weight and the volumetric
\* weight L*W*H*vol_factor/6000 per unit times the quantity (to 0.1 kg).
C10_AirChargeable ==
    pc \in {"specs", "compared"} =>
        LET p == product_info
            vf == IF packing_type = "A: module (volume 70%)" THEN 7 ELSE 10
            vol_unit == p.dims_cm[1] * p.dims_cm[2] * p.dims_cm[3] * vf
            whole == (vol_unit \div 6000) * qty
            rem == (vol_unit % 6000) * qty
            gw == p.weight_kg * qty
            off == (logistics.air_cw - whole) * 6000 - rem
        IN  /\ logistics.total_gw = gw
            /\ logistics.air_cw >= logistics.total_gw
            /\ IF p.weight_kg * 6000 >= vol_unit
               THEN logistics.air_cw = gw
               ELSE -3000 <= off /\ off <= 3000

\* C10 witness: a shipment billed on its volumetric weight.
C10_Witness ==
    /\ pc = "specs"
    /\ qty = 120
    /\ logistics.air_cw > logistics.total_gw

\* C11 (Spec), the claim as stated: whichever ocean mode wins, the quote's
\* origin inland trucking (item 3), origin terminal/warehouse (item 5) and
\* international freight (item 6), plus the documentation fee, sum to
\* best_ocean's total cost, so that none of its components is counted twice.
C11_OceanItemsSumToBest ==
    pc = "quoted" =>
        MAdd(MAdd(MAdd(quote.items[3], quote.items[5]), quote.items[6]),
             Won(shipping.lcl.doc))
            = shipping.best_ocean.cost

\* C12 (SpecFcl), the claim as stated: whenever FCL is recommended, the
\* recommended containers can carry the shipment on both limits:
\* container_qty * max_cbm >= total_cbm and container_qty * max_kg >= total_gw
\* for the recommended container type's capacities in CONTAINER_SPECS.
C12_RecommendationCarries ==
    (pc = "fcl" /\ fcl_rec.recommend_fcl) =>
        LET spec == CONTAINER_SPECS[fcl_rec.container_type]
        IN  /\ fcl_rec.container_qty * spec.max_cbm * 1000
                  >= logistics.total_cbm
            /\ fcl_rec.container_qty * spec.max_kg * 10
                  >= logistics.total_gw

====
